---- MODULE Spec2Model ----
(***************************************************************************)
(* Model of the Nechako watershed conversion scripts:                      *)
(*   convert_data.py       daily aggregation, air-temperature merge and    *)
(*                         the Update-mode station registry reconciler     *)
(*   download_air_temp.py  the climate-fetch batch                         *)
(*                                                                         *)
(* Three specifications share the variables:                               *)
(*   SpecAgg    process_csv_file applied to bounded raw series             *)
(*   Spec       convert_data.main run repeatedly on a persisted registry   *)
(*   SpecFetch  download_air_temp.main over bounded metadata tables        *)
(*                                                                         *)
(* Temperatures are exact decimals held as integers in thousandths of a    *)
(* degree; float, NaN, None and non-numeric text are tagged records so     *)
(* that values of different Python types can be compared.                  *)
(***************************************************************************)
EXTENDS Integers, Sequences, FiniteSets, TLC

\* ------------------------------------------------------------------ bounds
MaxSamples == 3
MaxDate == 2
MaxStations == 2
MaxRuns == 2
MaxRows == 3

\* ------------------------------------------------------------------ values
Float(x) == [t |-> "float", v |-> x]
NaN == [t |-> "nan", v |-> 0]
None == [t |-> "none", v |-> 0]
Text == [t |-> "str", v |-> 0]

\* str() of a datetime.date: ISO calendar dates, in calendar order
DateNames == <<"2021-05-01", "2021-05-02", "2021-05-03", "2021-05-04">>

DateStr(d) == DateNames[d]

\* pd.to_numeric(..., errors='coerce')
ToNumeric(x) == IF x.t = "float" THEN x ELSE NaN

\* isinstance(value, float) and math.isnan(value)
IsNaN(x) == x.t = "nan"

\* nearest integer to num/den (den > 0), ties to the even neighbour
RoundHalfEven(num, den) ==
    LET q == num \div den
        r == num % den
    IN  IF 2 * r < den THEN q
        ELSE IF 2 * r > den THEN q + 1
        ELSE IF q % 2 = 0 THEN q ELSE q + 1

\* .round(2) of num/den thousandths of a degree
Round2(num, den) == 10 * RoundHalfEven(num, 10 * den)

RECURSIVE SumOver(_, _)
SumOver(rows, I) ==
    IF I = {} THEN 0
    ELSE LET i == CHOOSE k \in I : TRUE
         IN  rows[i].wtmp.v + SumOver(rows, I \ {i})

\* ------------------------------------------------- process_csv_file pieces
\* the rows of one calendar date whose wtmp survived the coercion
ValidRows(rows, d) ==
    {i \in 1..Len(rows) : rows[i].timestamp = d /\ ToNumeric(rows[i].wtmp).t = "float"}

AggMean(rows, d) ==
    LET I == ValidRows(rows, d)
    IN  IF I = {} THEN NaN ELSE Float(Round2(SumOver(rows, I), Cardinality(I)))

AggMin(rows, d) ==
    LET I == ValidRows(rows, d)
    IN  IF I = {} THEN NaN
        ELSE Float(Round2(CHOOSE x \in {rows[i].wtmp.v : i \in I} :
                            \A y \in {rows[i].wtmp.v : i \in I} : x <= y, 1))

AggMax(rows, d) ==
    LET I == ValidRows(rows, d)
    IN  IF I = {} THEN NaN
        ELSE Float(Round2(CHOOSE x \in {rows[i].wtmp.v : i \in I} :
                            \A y \in {rows[i].wtmp.v : i \in I} : x >= y, 1))

AggCount(rows, d) == Cardinality(ValidRows(rows, d))

\* group keys in order of first appearance (groupby(..., sort=False))
GroupKeysUnsorted(rows) ==
    LET firsts == {i \in 1..Len(rows) : \A k \in 1..(i - 1) : rows[k].timestamp # rows[i].timestamp}
    IN  [k \in 1..Cardinality(firsts) |->
            rows[CHOOSE i \in firsts : Cardinality({m \in firsts : m < i}) = k - 1].timestamp]

\* df.groupby('date'): one key per distinct date, sorted ascending
GroupKeys(rows) ==
    LET S == {rows[i].timestamp : i \in 1..Len(rows)}
    IN  [k \in 1..Cardinality(S) |->
            CHOOSE d \in S : Cardinality({e \in S : e < d}) = k - 1]

\* daily_stats after lines 38-51 (no airtemp_c column yet)
DailyStats(rows) ==
    LET keys == GroupKeys(rows)
    IN  [k \in 1..Len(keys) |->
            [date |-> DateStr(keys[k]),
             temp_c |-> AggMean(rows, keys[k]),
             min_temp_c |-> AggMin(rows, keys[k]),
             max_temp_c |-> AggMax(rows, keys[k]),
             n_values |-> AggCount(rows, keys[k])]]

\* airtemp_data.get(d, None)
LookupGet(entries, d) ==
    IF \E e \in entries : e.date = d
    THEN (CHOOSE e \in entries : e.date = d).value
    ELSE None

\* Series.apply result: None becomes NaN once the column holds a float
ApplyInfer(col) ==
    IF \E k \in 1..Len(col) : col[k].t \in {"float", "nan"}
    THEN [k \in 1..Len(col) |-> IF col[k].t = "none" THEN NaN ELSE col[k]]
    ELSE col

\* a merge that carries the last known value forward over missing dates
AirTempColumnFfill(daily, lookup) ==
    IF lookup.exists
    THEN [k \in 1..Len(daily) |->
            LET known == {m \in 1..k : \E e \in lookup.entries : e.date = daily[m].date}
            IN  IF known = {} THEN None
                ELSE LookupGet(lookup.entries,
                               daily[CHOOSE m \in known : \A o \in known : o <= m].date)]
    ELSE [k \in 1..Len(daily) |-> None]

\* the airtemp_c column of lines 55-61
AirTempColumn(daily, lookup) ==
    IF lookup.exists
    THEN ApplyInfer([k \in 1..Len(daily) |-> LookupGet(lookup.entries, daily[k].date)])
    ELSE [k \in 1..Len(daily) |-> None]

\* daily_stats['airtemp_c'] = ...: sets that one column
MergeAirTemp(daily, lookup) ==
    LET col == AirTempColumn(daily, lookup)
    IN  [k \in 1..Len(daily) |->
            [date |-> daily[k].date,
             temp_c |-> daily[k].temp_c,
             min_temp_c |-> daily[k].min_temp_c,
             max_temp_c |-> daily[k].max_temp_c,
             n_values |-> daily[k].n_values,
             airtemp_c |-> col[k]]]

NoNaN(x) == IF IsNaN(x) THEN None ELSE x

\* to_dict('records') left as it is, NaN included
ToRecordsRaw(merged) == merged

\* to_dict('records') followed by the NaN -> None loop of lines 68-71
ToRecords(merged) ==
    [k \in 1..Len(merged) |->
        [date |-> merged[k].date,
         temp_c |-> NoNaN(merged[k].temp_c),
         min_temp_c |-> NoNaN(merged[k].min_temp_c),
         max_temp_c |-> NoNaN(merged[k].max_temp_c),
         n_values |-> merged[k].n_values,
         airtemp_c |-> NoNaN(merged[k].airtemp_c)]]

\* pd.read_csv / to_datetime / json.load raise
ProcessRaises(content, lookup) == ~content.ok \/ (lookup.exists /\ ~lookup.ok)

process_csv_file(content, lookup) == ToRecords(MergeAirTemp(DailyStats(content.rows), lookup))


\* ------------------------------------------------- update_stations_data pieces
\* station_code in os.path.basename(csv_file)
Contains(name, code) ==
    \E k \in 1..(Len(name) - Len(code) + 1) : SubSeq(name, k, k + Len(code) - 1) = code

\* lines 94-98: index of the first file, in discovery order, whose base name
\* contains the code; 0 for matching_csv = None
MatchingCsv(code, files) ==
    LET hits == {k \in 1..Len(files) : Contains(files[k].name, code)}
    IN  IF hits = {} THEN 0 ELSE CHOOSE k \in hits : \A m \in hits : k <= m

Key(x) == [present |-> TRUE, v |-> x]

\* the unmatched station dropped, as Build mode would
KeepExistingDropped(updated, station) == updated

\* line 102
KeepExisting(updated, station) == Append(updated, station)

\* line 111
SetCsvFilename(station, name) == [station EXCEPT !.csv_filename = Key(name)]

\* a count that adds to the stored one
SetCountAdded(station, data) == [station EXCEPT !.n = station.n + Len(data)]

\* line 116
SetCount(station, data) == [station EXCEPT !.n = Len(data)]

\* start and end taken from the data without the emptiness guard
SetSpanUnguarded(station, data) ==
    [station EXCEPT !.start = IF data # <<>> THEN data[1].date ELSE "",
                    !.end = IF data # <<>> THEN data[Len(data)].date ELSE ""]

\* lines 119-121
SetSpan(station, data) ==
    IF data # <<>>
    THEN [station EXCEPT !.start = data[1].date, !.end = data[Len(data)].date]
    ELSE station



\* ------------------------------------------------------------------ state
VARIABLES
    raw, lookup, result, aggpc,
    indexFile, csv_files, lookups, stations, updated_stations, i, pc,
    public_csv, series_files, config_written, log, index0, completed, run,
    metadata, j, fpc, success, calls, fetch_log, daymet_csv, airtemp_json

aggVars == <<raw, lookup, result, aggpc>>

convVars == <<indexFile, csv_files, lookups, stations, updated_stations, i, pc,
              public_csv, series_files, config_written, log, index0, completed, run>>

fetchVars == <<metadata, j, fpc, success, calls, fetch_log, daymet_csv, airtemp_json>>

vars == <<aggVars, convVars, fetchVars>>

\* ------------------------------------------------------------------ inputs
SeqUpTo(S, n) == UNION {[1..k -> S] : k \in 0..n}

\* raw samples: the calendar day of the timestamp and the wtmp cell
Samples == [timestamp : 1..MaxDate, wtmp : {Text, Float(10004), Float(11997)}]

Unreadable == [ok |-> FALSE, rows |-> <<>>]

RawSet == {[ok |-> TRUE, rows |-> r] : r \in SeqUpTo(Samples, MaxSamples)} \cup {Unreadable}

NoLookup == [exists |-> FALSE, ok |-> TRUE, entries |-> {}]

BadLookup == [exists |-> TRUE, ok |-> FALSE, entries |-> {}]

FirstDayLookup ==
    [exists |-> TRUE, ok |-> TRUE,
     entries |-> {[date |-> "2021-05-01", value |-> Float(5500)]}]

GapLookup ==
    [exists |-> TRUE, ok |-> TRUE,
     entries |-> {[date |-> "2021-05-01", value |-> NaN],
                  [date |-> "2021-05-02", value |-> Float(-1250)],
                  [date |-> "2021-04-30", value |-> Float(900)]}]

EmptyLookup == [exists |-> TRUE, ok |-> TRUE, entries |-> {}]

LookupSet == {NoLookup, BadLookup, FirstDayLookup, GapLookup, EmptyLookup}

AggIdle == raw = Unreadable /\ lookup = NoLookup /\ result = <<>> /\ aggpc = "idle"

ConvIdle ==
    /\ indexFile = <<>> /\ csv_files = <<>> /\ lookups = <<>> /\ stations = <<>>
    /\ updated_stations = <<>> /\ i = 0 /\ pc = "idle" /\ public_csv = {}
    /\ series_files = {} /\ config_written = FALSE /\ log = <<>> /\ index0 = <<>>
    /\ completed = 0 /\ run = 0

FetchIdle ==
    /\ metadata = <<>> /\ j = 0 /\ fpc = "idle" /\ success = FALSE /\ calls = <<>>
    /\ fetch_log = <<>> /\ daymet_csv = {} /\ airtemp_json = {}

\* ------------------------------------------ SpecAgg: process_csv_file alone
InitAgg ==
    /\ raw \in RawSet
    /\ lookup \in LookupSet
    /\ result = <<>>
    /\ aggpc = "call"
    /\ ConvIdle
    /\ FetchIdle

ProcessReturn ==
    /\ aggpc = "call"
    /\ ~ProcessRaises(raw, lookup)
    /\ result' = process_csv_file(raw, lookup)
    /\ aggpc' = "returned"
    /\ UNCHANGED <<raw, lookup, convVars, fetchVars>>

ProcessRaise ==
    /\ aggpc = "call"
    /\ ProcessRaises(raw, lookup)
    /\ aggpc' = "raised"
    /\ UNCHANGED <<raw, lookup, result, convVars, fetchVars>>

NextAgg == ProcessReturn \/ ProcessRaise

SpecAgg == InitAgg /\ [][NextAgg]_vars


\* ------------------------------------------ Spec: convert_data.main, repeated
N1 == <<"N", "1">>

N12 == <<"N", "1", "2">>

S3 == <<"S", "3">>

Codes == {N1, N12, S3}

\* the 'filename' value of a station record
JsonName(code) == IF code = N1 THEN "N1.json" ELSE IF code = N12 THEN "N12.json" ELSE "S3.json"

FileNames == {JsonName(c) : c \in Codes}

NoKey(x) == [present |-> FALSE, v |-> x]

\* records of a previously written stations.json; station_id stands for the
\* fields the reconciler never assigns
StationRecords ==
    {[station_code |-> c, station_id |-> JsonName(c),
      filename |-> IF hasName THEN Key(JsonName(c)) ELSE NoKey(""),
      csv_filename |-> cf, start |-> "2019-01-01", end |-> "2019-12-31", n |-> 7] :
        c \in Codes,
        hasName \in BOOLEAN,
        cf \in {Key(<<"o", "l", "d">>), NoKey(<<>>)}}

Registries ==
    UNION {{r \in [1..k -> StationRecords] :
              \A a, b \in 1..k : a # b => r[a].station_code # r[b].station_code} :
           k \in 1..MaxStations}

\* base names of the raw files glob can discover
CsvNames == {<<"N", "1", "_", "w">>, <<"N", "1", "2", "_", "w">>}

TwoDayRows ==
    <<[timestamp |-> 2, wtmp |-> Float(11997)],
      [timestamp |-> 1, wtmp |-> Text],
      [timestamp |-> 2, wtmp |-> Float(10004)]>>

ContentSet == {Unreadable, [ok |-> TRUE, rows |-> <<>>], [ok |-> TRUE, rows |-> TwoDayRows]}

CsvNameLists ==
    {ns \in SeqUpTo(CsvNames, Cardinality(CsvNames)) :
        \A a, b \in 1..Len(ns) : a # b => ns[a] # ns[b]}

\* glob.glob result: files in discovery order, each with its content
CsvFileLists ==
    UNION {{[k \in 1..Len(ns) |-> [name |-> ns[k], content |-> cs[k]]] :
              cs \in [1..Len(ns) -> ContentSet]} :
           ns \in CsvNameLists}

\* daymet_data/{station_code}_airtemp.json per station code
LookupConfigs ==
    {[c \in Codes |-> NoLookup],
     [c \in Codes |-> IF c = N1 THEN FirstDayLookup ELSE IF c = N12 THEN BadLookup ELSE NoLookup],
     [c \in Codes |-> IF c = N1 THEN BadLookup ELSE IF c = N12 THEN GapLookup ELSE NoLookup]}

NotWritten == [written |-> FALSE, data |-> <<>>]

Init ==
    /\ indexFile \in Registries
    /\ csv_files \in CsvFileLists
    /\ lookups \in LookupConfigs
    /\ stations = <<>>
    /\ updated_stations = <<>>
    /\ i = 0
    /\ pc = "start"
    /\ public_csv = {}
    /\ series_files = [f \in FileNames |-> NotWritten]
    /\ config_written = FALSE
    /\ log = <<>>
    /\ index0 = <<>>
    /\ completed = 0
    /\ run = 1
    /\ AggIdle
    /\ FetchIdle

\* main lines 144-153 up to the loop: load_stations, makedirs, glob
LoadStations ==
    /\ pc = "start"
    /\ stations' = indexFile
    /\ index0' = indexFile
    /\ updated_stations' = <<>>
    /\ log' = <<>>
    /\ i' = 1
    /\ pc' = "loop"
    /\ UNCHANGED <<indexFile, csv_files, lookups, public_csv, series_files,
                   config_written, completed, run, aggVars, fetchVars>>

InLoop == pc = "loop" /\ i <= Len(stations)

Matched == MatchingCsv(stations[i].station_code, csv_files)

\* lines 100-103
NoCsvFound ==
    /\ InLoop
    /\ Matched = 0
    /\ updated_stations' = KeepExisting(updated_stations, stations[i])
    /\ log' = Append(log, "no_csv")
    /\ i' = i + 1
    /\ UNCHANGED <<indexFile, csv_files, lookups, stations, pc, public_csv, series_files,
                   config_written, index0, completed, run, aggVars, fetchVars>>

\* line 110 raising (source unreadable, destination not writable): outside
\* the try block, so the exception leaves update_stations_data and main
CopyRaises ==
    /\ InLoop
    /\ Matched # 0
    /\ pc' = "aborted"
    /\ UNCHANGED <<indexFile, csv_files, lookups, stations, updated_stations, i, public_csv,
                   series_files, config_written, log, index0, completed, run,
                   aggVars, fetchVars>>

\* lines 109-115 and 134-138: process_csv_file raises
ProcessError ==
    /\ InLoop
    /\ Matched # 0
    /\ LET csv == csv_files[Matched]
           st1 == SetCsvFilename(stations[i], csv.name)
       IN  /\ ProcessRaises(csv.content, lookups[stations[i].station_code])
           /\ public_csv' = public_csv \cup {csv.name}
           /\ stations' = [stations EXCEPT ![i] = st1]
           /\ updated_stations' = Append(updated_stations, st1)
    /\ log' = Append(log, "error")
    /\ i' = i + 1
    /\ UNCHANGED <<indexFile, csv_files, lookups, pc, series_files, config_written,
                   index0, completed, run, aggVars, fetchVars>>

\* lines 109-127 and 134-138: station['filename'] raises KeyError, or open()
\* of the series file raises (an I/O error can meet any station, so the
\* action is enabled whenever process_csv_file returned)
WriteError ==
    /\ InLoop
    /\ Matched # 0
    /\ LET csv == csv_files[Matched]
           lk == lookups[stations[i].station_code]
           data == process_csv_file(csv.content, lk)
           st2 == SetSpan(SetCount(SetCsvFilename(stations[i], csv.name), data), data)
       IN  /\ ~ProcessRaises(csv.content, lk)
           /\ public_csv' = public_csv \cup {csv.name}
           /\ stations' = [stations EXCEPT ![i] = st2]
           /\ updated_stations' = Append(updated_stations, st2)
    /\ log' = Append(log, "error")
    /\ i' = i + 1
    /\ UNCHANGED <<indexFile, csv_files, lookups, pc, series_files, config_written,
                   index0, completed, run, aggVars, fetchVars>>

\* lines 109-132: the whole try block succeeds
StationUpdated ==
    /\ InLoop
    /\ Matched # 0
    /\ stations[i].filename.present
    /\ LET csv == csv_files[Matched]
           lk == lookups[stations[i].station_code]
           data == process_csv_file(csv.content, lk)
           st2 == SetSpan(SetCount(SetCsvFilename(stations[i], csv.name), data), data)
       IN  /\ ~ProcessRaises(csv.content, lk)
           /\ public_csv' = public_csv \cup {csv.name}
           /\ stations' = [stations EXCEPT ![i] = st2]
           /\ series_files' = [series_files EXCEPT ![st2.filename.v] =
                                  [written |-> TRUE, data |-> data]]
           /\ updated_stations' = Append(updated_stations, st2)
    /\ log' = Append(log, "updated")
    /\ i' = i + 1
    /\ UNCHANGED <<indexFile, csv_files, lookups, pc, config_written,
                   index0, completed, run, aggVars, fetchVars>>

\* lines 140, 155-157: the loop is over, stations.json is rewritten
WriteIndex ==
    /\ pc = "loop"
    /\ i > Len(stations)
    /\ indexFile' = updated_stations
    /\ completed' = completed + 1
    /\ pc' = "config"
    /\ UNCHANGED <<csv_files, lookups, stations, updated_stations, i, public_csv,
                   series_files, config_written, log, index0, run, aggVars, fetchVars>>

\* lines 161-171
WriteConfig ==
    /\ pc = "config"
    /\ config_written' = TRUE
    /\ pc' = "done"
    /\ UNCHANGED <<indexFile, csv_files, lookups, stations, updated_stations, i, public_csv,
                   series_files, log, index0, completed, run, aggVars, fetchVars>>

\* the script is run again on what the last run left on disk
RunAgain ==
    /\ pc = "done"
    /\ run < MaxRuns
    /\ run' = run + 1
    /\ config_written' = FALSE
    /\ pc' = "start"
    /\ UNCHANGED <<indexFile, csv_files, lookups, stations, updated_stations, i, public_csv,
                   series_files, log, index0, completed, aggVars, fetchVars>>

Next ==
    \/ LoadStations
    \/ NoCsvFound
    \/ CopyRaises
    \/ ProcessError
    \/ WriteError
    \/ StationUpdated
    \/ WriteIndex
    \/ WriteConfig
    \/ RunAgain

Spec == Init /\ [][Next]_vars

\* ------------------------------------------ SpecFetch: download_air_temp.main
\* one metadata row: whether its record_start/record_end parse, and what the
\* climate service answers for it
MetadataRows == [dates_ok : BOOLEAN, response : {"http_error", "ok", "malformed"}]

InitFetch ==
    /\ metadata \in SeqUpTo(MetadataRows, MaxRows)
    /\ j = 0
    /\ fpc = "start"
    /\ success = FALSE
    /\ calls = <<>>
    /\ fetch_log = <<>>
    /\ daymet_csv = {}
    /\ airtemp_json = {}
    /\ AggIdle
    /\ ConvIdle

\* for ... in metadata_df.iterrows(): the next row, or the end of the loop
RowOrDone(jj, n) == IF jj > n THEN "done" ELSE "row"

\* the delay placed inside the `if success:` block
AfterDownloadSleepOnSuccess(ok, jj, n) ==
    IF ok THEN [fpc |-> "process", j |-> jj]
    ELSE [fpc |-> RowOrDone(jj + 1, n), j |-> jj + 1]

\* lines 98-116: the success branch first, then the delay on either path
AfterDownload(ok, jj, n) ==
    IF ok THEN [fpc |-> "process", j |-> jj] ELSE [fpc |-> "sleep", j |-> jj]

\* lines 78-80
LoadMetadata ==
    /\ fpc = "start"
    /\ j' = 1
    /\ fpc' = RowOrDone(1, Len(metadata))
    /\ UNCHANGED <<metadata, success, calls, fetch_log, daymet_csv, airtemp_json,
                   aggVars, convVars>>

\* lines 89-90: pd.to_datetime raises on the row's dates
DatesRaise ==
    /\ fpc = "row"
    /\ ~metadata[j].dates_ok
    /\ fpc' = "aborted"
    /\ UNCHANGED <<metadata, j, success, calls, fetch_log, daymet_csv, airtemp_json,
                   aggVars, convVars>>

\* lines 44-45, 58-60: RequestException caught, download returns False
RequestFails ==
    /\ fpc = "row"
    /\ metadata[j].dates_ok
    /\ metadata[j].response = "http_error"
    /\ calls' = Append(calls, "request")
    /\ fetch_log' = Append(fetch_log, "error")
    /\ success' = FALSE
    /\ fpc' = AfterDownload(FALSE, j, Len(metadata)).fpc
    /\ j' = AfterDownload(FALSE, j, Len(metadata)).j
    /\ UNCHANGED <<metadata, daymet_csv, airtemp_json, aggVars, convVars>>

\* lines 44-53: the request succeeds and makedirs/open/write raises OSError,
\* which `except RequestException` does not catch
SaveRaises ==
    /\ fpc = "row"
    /\ metadata[j].dates_ok
    /\ metadata[j].response # "http_error"
    /\ calls' = Append(calls, "request")
    /\ fpc' = "aborted"
    /\ UNCHANGED <<metadata, j, success, fetch_log, daymet_csv, airtemp_json,
                   aggVars, convVars>>

\* lines 44-56: the response is saved verbatim, download returns True
Downloaded ==
    /\ fpc = "row"
    /\ metadata[j].dates_ok
    /\ metadata[j].response # "http_error"
    /\ calls' = Append(calls, "request")
    /\ daymet_csv' = daymet_csv \cup {j}
    /\ fetch_log' = Append(fetch_log, "saved")
    /\ success' = TRUE
    /\ fpc' = AfterDownload(TRUE, j, Len(metadata)).fpc
    /\ j' = AfterDownload(TRUE, j, Len(metadata)).j
    /\ UNCHANGED <<metadata, airtemp_json, aggVars, convVars>>

\* line 101: process_daymet_csv raises on a saved response without the
\* expected header and columns; main has no handler
DaymetParseRaises ==
    /\ fpc = "process"
    /\ metadata[j].response = "malformed"
    /\ fpc' = "aborted"
    /\ UNCHANGED <<metadata, j, success, calls, fetch_log, daymet_csv, airtemp_json,
                   aggVars, convVars>>

\* lines 99-113
AirTempSaved ==
    /\ fpc = "process"
    /\ metadata[j].response = "ok"
    /\ airtemp_json' = airtemp_json \cup {j}
    /\ fetch_log' = Append(fetch_log, "processed")
    /\ fpc' = "sleep"
    /\ UNCHANGED <<metadata, j, success, calls, daymet_csv, aggVars, convVars>>

\* line 116 and the step to the next row
Sleep ==
    /\ fpc = "sleep"
    /\ calls' = Append(calls, "sleep")
    /\ j' = j + 1
    /\ fpc' = RowOrDone(j + 1, Len(metadata))
    /\ UNCHANGED <<metadata, success, fetch_log, daymet_csv, airtemp_json,
                   aggVars, convVars>>

NextFetch ==
    \/ LoadMetadata
    \/ DatesRaise
    \/ RequestFails
    \/ SaveRaises
    \/ Downloaded
    \/ DaymetParseRaises
    \/ AirTempSaved
    \/ Sleep

SpecFetch == InitFetch /\ [][NextFetch]_vars

\* ------------------------------------------------- claims on process_csv_file
DayOf(s) == CHOOSE d \in 1..Len(DateNames) : DateNames[d] = s

NumericOn(rows, d) == {rows[k].wtmp.v : k \in {m \in 1..Len(rows) : rows[m].timestamp = d /\ rows[m].wtmp.t = "float"}}

CountOn(rows, d) == Cardinality({m \in 1..Len(rows) : rows[m].timestamp = d /\ rows[m].wtmp.t = "float"})

Least(S) == CHOOSE x \in S : \A y \in S : x <= y

Greatest(S) == CHOOSE x \in S : \A y \in S : x >= y

NullWhenEmpty(r) ==
    /\ r.n_values = 0 => (r.temp_c = None /\ r.min_temp_c = None /\ r.max_temp_c = None)
    /\ ~IsNaN(r.temp_c) /\ ~IsNaN(r.min_temp_c) /\ ~IsNaN(r.max_temp_c)

\* C6 as stated: n_values counts the samples of the date that coerced to a
\* number, min_temp_c and max_temp_c are the minimum and maximum of exactly
\* those samples, and a date without numeric samples carries null, never NaN.
C6_MinMaxExact ==
    aggpc = "returned" =>
        \A k \in 1..Len(result) :
            LET d == DayOf(result[k].date)
                S == NumericOn(raw.rows, d)
            IN  /\ result[k].n_values = CountOn(raw.rows, d)
                /\ S # {} => /\ result[k].min_temp_c = Float(Least(S))
                             /\ result[k].max_temp_c = Float(Greatest(S))
                /\ NullWhenEmpty(result[k])

\* C6 amended: as C6, with min_temp_c and max_temp_c the minimum and maximum
\* of those samples each rounded to 2 decimal places.
C6_MinMaxRounded ==
    aggpc = "returned" =>
        \A k \in 1..Len(result) :
            LET d == DayOf(result[k].date)
                S == NumericOn(raw.rows, d)
            IN  /\ result[k].n_values = CountOn(raw.rows, d)
                /\ S # {} => /\ result[k].min_temp_c = Float(10 * RoundHalfEven(Least(S), 10))
                             /\ result[k].max_temp_c = Float(10 * RoundHalfEven(Greatest(S), 10))
                /\ NullWhenEmpty(result[k])

C6_Witness ==
    /\ aggpc = "returned"
    /\ \E k \in 1..Len(result) : result[k].n_values = 0 /\ result[k].temp_c = None
    /\ \E k \in 1..Len(result) :
        result[k].n_values = 2 /\ result[k].min_temp_c # result[k].max_temp_c

\* C7: process_csv_file emits exactly one DailyAggregate per distinct calendar
\* date of the input, strictly ascending by date whatever the input order.
C7_OnePerDateAscending ==
    aggpc = "returned" =>
        /\ {result[k].date : k \in 1..Len(result)}
              = {DateStr(raw.rows[m].timestamp) : m \in 1..Len(raw.rows)}
        /\ Len(result) = Cardinality({raw.rows[m].timestamp : m \in 1..Len(raw.rows)})
        /\ \A k \in 1..(Len(result) - 1) : DayOf(result[k].date) < DayOf(result[k + 1].date)

C7_Witness ==
    /\ aggpc = "returned"
    /\ Len(raw.rows) >= 3
    /\ raw.rows[1].timestamp > raw.rows[2].timestamp
    /\ raw.rows[3].timestamp = raw.rows[1].timestamp
    /\ Len(result) = 2

OtherFieldsKept ==
    LET daily == DailyStats(raw.rows)
    IN  /\ Len(result) = Len(daily)
        /\ \A k \in 1..Len(result) :
              /\ result[k].date = daily[k].date
              /\ result[k].temp_c = NoNaN(daily[k].temp_c)
              /\ result[k].min_temp_c = NoNaN(daily[k].min_temp_c)
              /\ result[k].max_temp_c = NoNaN(daily[k].max_temp_c)
              /\ result[k].n_values = daily[k].n_values

HasKey(lk, d) == \E e \in lk.entries : e.date = d

ValueAt(lk, d) == (CHOOSE e \in lk.entries : e.date = d).value

\* C8 as stated: without a lookup every airtemp_c is null; with one, a date
\* that is a key carries the looked-up value and every other date null; no
\* other field changes and merging again gives the same result.
C8_MergeLookedUpValue ==
    aggpc = "returned" =>
        /\ \A k \in 1..Len(result) :
              result[k].airtemp_c =
                 IF lookup.exists /\ HasKey(lookup, result[k].date)
                 THEN ValueAt(lookup, result[k].date)
                 ELSE None
        /\ OtherFieldsKept
        /\ ToRecords(MergeAirTemp(result, lookup)) = result

\* C8 amended: as C8, except that a looked-up value that is NaN is emitted as
\* the absence marker.
C8_MergeLookedUpValueNoNaN ==
    aggpc = "returned" =>
        /\ \A k \in 1..Len(result) :
              result[k].airtemp_c =
                 IF lookup.exists /\ HasKey(lookup, result[k].date)
                       /\ ValueAt(lookup, result[k].date).t # "nan"
                 THEN ValueAt(lookup, result[k].date)
                 ELSE None
        /\ OtherFieldsKept
        /\ ToRecords(MergeAirTemp(result, lookup)) = result

C8_Witness ==
    /\ aggpc = "returned"
    /\ lookup.exists
    /\ \E k \in 1..Len(result) :
          HasKey(lookup, result[k].date) /\ result[k].airtemp_c.t = "float"
    /\ \E k \in 1..Len(result) :
          ~HasKey(lookup, result[k].date) /\ result[k].airtemp_c = None


\* ------------------------------------------------- claims on update_stations_data
NoFileContains(code) == \A k \in 1..Len(csv_files) : ~Contains(csv_files[k].name, code)

RunReturned == pc \in {"config", "done"}

\* C1: when a step of a matched station's processing raises, the record
\* appended for it equals the record of the input registry in every field.
C1_ErrorKeepsPriorRecord ==
    \A k \in 1..Len(updated_stations) :
        log[k] = "error" => updated_stations[k] = index0[k]

\* C2: no per-station failure, the copy of the raw file included, stops the
\* batch before every station is visited and the index and config are written.
C2_BatchNeverAborts == pc # "aborted"

\* C3: a station whose code no raw file's base name contains is appended with
\* every field unchanged, no raw file is copied and no series file is written
\* for it, and it is so in the returned list.
C3_UnmatchedPassThrough ==
    /\ [][(InLoop /\ NoFileContains(stations[i].station_code)) =>
            /\ updated_stations' = Append(updated_stations, index0[i])
            /\ public_csv' = public_csv
            /\ series_files' = series_files]_vars
    /\ [](RunReturned =>
            /\ Len(updated_stations) = Len(index0)
            /\ \A k \in 1..Len(index0) :
                  NoFileContains(index0[k].station_code) => updated_stations[k] = index0[k])

C3_Witness ==
    /\ pc = "done"
    /\ \E k \in 1..Len(index0) :
          NoFileContains(index0[k].station_code) /\ log[k] = "no_csv"
    /\ \E k \in 1..Len(log) : log[k] = "updated"

FirstMatchName(code, name) ==
    \E m \in 1..Len(csv_files) :
        /\ Contains(csv_files[m].name, code)
        /\ \A o \in 1..(m - 1) : ~Contains(csv_files[o].name, code)
        /\ name = csv_files[m].name

SuccessFrame(rec, old, data) ==
    /\ series_files[rec.filename.v].written
    /\ rec.n = Len(data)
    /\ rec.csv_filename.present
    /\ FirstMatchName(old.station_code, rec.csv_filename.v)
    /\ rec.station_code = old.station_code
    /\ rec.station_id = old.station_id
    /\ rec.filename = old.filename

\* C4 as stated: after a successful update start is the first aggregate's
\* date, end the last aggregate's date, n the number of aggregates written,
\* csv_filename the matched base name and the other fields unchanged, also
\* when the aggregate sequence is empty.
C4_SpanFromAggregates ==
    \A k \in 1..Len(updated_stations) :
        log[k] = "updated" =>
            LET rec == updated_stations[k]
                data == series_files[rec.filename.v].data
            IN  /\ SuccessFrame(rec, index0[k], data)
                /\ Len(data) >= 1
                /\ rec.start = data[1].date
                /\ rec.end = data[Len(data)].date

\* C4 amended: as C4 when the aggregate sequence is not empty; when it is
\* empty n is 0 and start and end keep their values from the input registry.
C4_SpanFromAggregatesOrKept ==
    \A k \in 1..Len(updated_stations) :
        log[k] = "updated" =>
            LET rec == updated_stations[k]
                data == series_files[rec.filename.v].data
            IN  /\ SuccessFrame(rec, index0[k], data)
                /\ Len(data) >= 1 => /\ rec.start = data[1].date
                                     /\ rec.end = data[Len(data)].date
                /\ Len(data) = 0 => /\ rec.start = index0[k].start
                                    /\ rec.end = index0[k].end

C4_Witness ==
    /\ \E k \in 1..Len(updated_stations) :
          log[k] = "updated" /\ updated_stations[k].n = 0
    /\ \E k \in 1..Len(updated_stations) :
          log[k] = "updated" /\ updated_stations[k].n = 2
                             /\ updated_stations[k].start = "2021-05-01"

\* C5: a run whose input index was written by an earlier run over the same
\* raw files and lookups writes an index equal to its input, and a run in
\* which no raw file matches any station writes the index it read.
C5_Idempotent ==
    /\ (RunReturned /\ completed >= 2) => indexFile = index0
    /\ (RunReturned /\ \A k \in 1..Len(index0) : NoFileContains(index0[k].station_code))
          => indexFile = index0

C5_Witness ==
    /\ pc = "done"
    /\ completed >= 2
    /\ \E k \in 1..Len(log) : log[k] = "updated" /\ indexFile[k].n # 7
    /\ \E k \in 1..Len(log) : log[k] = "error"

\* ------------------------------------------------- claims on the climate fetch
\* C9: a failure confined to one station (request failed, raw response not
\* saved, saved response unparseable) never stops the batch after that
\* station's request: the loop goes on to the remaining rows.
C9_FailureConfined ==
    ~(fpc = "aborted" /\ Len(calls) > 0 /\ calls[Len(calls)] = "request")

\* C10: between any request to the climate service and the next request there
\* is exactly one delay, whether the request succeeded or failed.
C10_OneDelayBetweenRequests ==
    \A k \in 1..(Len(calls) - 1) :
        /\ calls[k] = "request" => calls[k + 1] = "sleep"
        /\ calls[k] = "sleep" => calls[k + 1] = "request"

C10_Witness ==
    /\ Len(calls) >= 5
    /\ calls[3] = "request"
    /\ calls[5] = "request"
    /\ fetch_log[1] = "error"
    /\ fetch_log[2] = "saved"

====
